---- MODULE Spec2Model ----
(***************************************************************************)
(* Model of scripts/scrape.py: the weekly OCHA Gaza "Reported Impact       *)
(* Snapshot" scraper.  One run of main() locates the latest PDF            *)
(* (find_latest_pdf_url), extracts the fatality count (extract_deaths,     *)
(* _parse_deaths_from_text), appends it to data/fatalities.csv and saves   *)
(* the plot.  The __main__ guard turns every exception into exit code 1.   *)
(*                                                                         *)
(* Texts are sequences of one-character strings.  Dates are the values of  *)
(* snap_date (a datetime), abstracted to the integers 1..MaxDate with the  *)
(* same order.                                                             *)
(***************************************************************************)
EXTENDS Integers, Sequences, FiniteSets, TLC

VARIABLES
    csv,            \* data/fatalities.csv: [exists, header, rows]
    OCR_AVAILABLE,  \* outcome of the optional import of pytesseract/pdf2image
    pc,             \* position of the current run of main()
    src,            \* what the network serves during the current run
    pdf_url,        \* main: pdf_url
    snap_date,      \* main: snap_date
    deaths,         \* main: deaths
    df,             \* main: df (the rows of the DataFrame)
    api_queried,    \* the ReliefWeb API was queried in this run
    ocr_invoked,    \* convert_from_bytes/pytesseract ran in this run
    exit_code,      \* exit status of the current/last run (0 while running)
    fail_stage,     \* stage whose exception ended the run ("none" otherwise)
    ledger_at_start,\* csv as it was when the current run started
    same_source,    \* the current run sees the source of the previous run
    prev_exit,      \* exit status of the previous run on the same source (else -1)
    text_in,        \* argument of a direct call of _parse_deaths_from_text
    parsed          \* its result (Unset before the call)

vars == <<csv, OCR_AVAILABLE, pc, src, pdf_url, snap_date, deaths, df,
          api_queried, ocr_invoked, exit_code, fail_stage, ledger_at_start,
          same_source, prev_exit, text_in, parsed>>

pipeVars == <<csv, OCR_AVAILABLE, pc, src, pdf_url, snap_date, deaths, df,
              api_queried, ocr_invoked, exit_code, fail_stage,
              ledger_at_start, same_source, prev_exit>>

----------------------------------------------------------------------------
(* Bounds *)

MaxDate == 2        \* dates are 1..MaxDate
RunLen == 5         \* length of the generated number runs
MaxFill == 1        \* longest generated filler

(* Python's None, and the value of a variable not yet assigned *)
None == -1
Unset == -2

Min(a, b) == IF a < b THEN a ELSE b

SetMax(S) == CHOOSE x \in S : \A y \in S : y <= x

SetMin(S) == CHOOSE x \in S : \A y \in S : x <= y

----------------------------------------------------------------------------
(* Characters and character classes of the regular expressions *)

NBSP == "NBSP"      \* U+00A0, one character
NNBSP == "NNBSP"    \* U+202F, one character

Digits == {"0", "1", "2", "3", "4", "5", "6", "7", "8", "9"}

LowerAlpha == <<"a", "b", "c", "d", "e", "f", "g", "h", "i", "j", "k", "l", "m",
                "n", "o", "p", "q", "r", "s", "t", "u", "v", "w", "x", "y", "z">>

UpperAlpha == <<"A", "B", "C", "D", "E", "F", "G", "H", "I", "J", "K", "L", "M",
                "N", "O", "P", "Q", "R", "S", "T", "U", "V", "W", "X", "Y", "Z">>

LowerSet == {LowerAlpha[i] : i \in 1..26}

UpperSet == {UpperAlpha[i] : i \in 1..26}

LowerMap == [c \in UpperSet |-> LowerAlpha[CHOOSE i \in 1..26 : UpperAlpha[i] = c]]

\* str.lower() on one character
Lower(c) == IF c \in UpperSet THEN LowerMap[c] ELSE c

\* \s on str patterns, and the characters str.strip() removes
IsSpace(c) == c \in {" ", "\n", "\t", NBSP, NNBSP}

\* [0-9,<NBSP><NNBSP>\s]
NUM_CHARS(c) == c \in Digits \/ c = "," \/ c = NBSP \/ c = NNBSP \/ IsSpace(c)

\* [a-z] under re.I
IsLetter(c) == c \in LowerSet \/ c \in UpperSet

PALESTINIANS == <<"p", "a", "l", "e", "s", "t", "i", "n", "i", "a", "n", "s">>

FATALITIES == <<"f", "a", "t", "a", "l", "i", "t", "i", "e", "s">>

\* the word as the reports write it
Palestinians == <<"P", "a", "l", "e", "s", "t", "i", "n", "i", "a", "n", "s">>

GapMax == 60
RunMin == 5
TailMax == 20

\* the literal lit, case-insensitively, at position i of text
MatchLit(text, i, lit) ==
    /\ i >= 1
    /\ i + Len(lit) - 1 <= Len(text)
    /\ \A k \in 1..Len(lit) : Lower(text[i + k - 1]) = lit[k]

\* lengths g such that [^NUM_CHARS]{0,60} can match text[j..j+g-1]
GapLens(text, j) ==
    {g \in 0..Min(GapMax, Len(text) - j + 1) :
        \A x \in j..(j + g - 1) : ~NUM_CHARS(text[x])}

\* lengths k such that [NUM_CHARS]{5,} can match text[s..s+k-1]
RunLens(text, s) ==
    {k \in RunMin..(Len(text) - s + 1) :
        \A x \in s..(s + k - 1) : NUM_CHARS(text[x])}

\* lengths t such that [^a-z]{0,20}fatalities can match from position e
TailLens(text, e) ==
    {t \in 0..Min(TailMax, Len(text) - e + 1) :
        /\ \A x \in e..(e + t - 1) : ~IsLetter(text[x])
        /\ MatchLit(text, e + t, FATALITIES)}

\* pat1 matches with the literal "palestinians" starting at position i
Pat1Gaps(text, i) ==
    {g \in GapLens(text, i + 12) :
        \E k \in RunLens(text, i + 12 + g) : TailLens(text, i + 12 + g + k) # {}}

Pat1At(text, i) == MatchLit(text, i, PALESTINIANS) /\ Pat1Gaps(text, i) # {}

\* group(1) of the match at i: the quantifiers are greedy, so the first
\* successful alternative has the longest gap and then the longest run
Pat1Group(text, i) ==
    LET g == SetMax(Pat1Gaps(text, i))
        s == i + 12 + g
        k == SetMax({r \in RunLens(text, s) : TailLens(text, s + r) # {}})
    IN  SubSeq(text, s, s + k - 1)

\* pat1.search(text): group(1) of the leftmost match, or <<>> if none
\* (group(1) is never empty: it has at least RunMin characters)
Pat1Search(text) ==
    LET starts == {i \in 1..Len(text) : Pat1At(text, i)}
    IN  IF starts = {} THEN <<>> ELSE Pat1Group(text, SetMin(starts))

\* text.splitlines(), for the line boundary "\n"
RECURSIVE SplitLines(_)
SplitLines(text) ==
    IF text = <<>> THEN <<>>
    ELSE LET nl == {i \in 1..Len(text) : text[i] = "\n"}
         IN  IF nl = {} THEN <<text>>
             ELSE LET p == SetMin(nl)
                  IN  <<SubSeq(text, 1, p - 1)>>
                        \o SplitLines(SubSeq(text, p + 1, Len(text)))

\* "palestinians" in line.lower()
HasPalestinians(line) == \E i \in 1..Len(line) : MatchLit(line, i, PALESTINIANS)

\* re.findall(r"[NUM_CHARS]{5,}", line): the first element, or <<>> if the
\* list is empty
FirstNums(line) ==
    LET starts == {s \in 1..Len(line) : RunLens(line, s) # {}}
    IN  IF starts = {} THEN <<>>
        ELSE LET s == SetMin(starts)
             IN  SubSeq(line, s, s + SetMax(RunLens(line, s)) - 1)

\* the loop over text.splitlines(): nums[0] of the first line that contains
\* "palestinians" and has a run, or <<>>
RECURSIVE LineFallback(_)
LineFallback(lines) ==
    IF lines = <<>> THEN <<>>
    ELSE IF HasPalestinians(Head(lines)) /\ FirstNums(Head(lines)) # <<>>
         THEN FirstNums(Head(lines))
         ELSE LineFallback(Tail(lines))

\* re.sub(r"[^\d]", "", num_str)
RECURSIVE StripNonDigits(_)
StripNonDigits(s) ==
    IF s = <<>> THEN <<>>
    ELSE IF Head(s) \in Digits THEN <<Head(s)>> \o StripNonDigits(Tail(s))
         ELSE StripNonDigits(Tail(s))

DigitMap == [c \in Digits |->
    CHOOSE v \in 0..9 : <<"0", "1", "2", "3", "4", "5", "6", "7", "8", "9">>[v + 1] = c]

DigitVal(c) == DigitMap[c]

\* int(num_str) for a non-empty string of digits
RECURSIVE ToInt(_)
ToInt(s) ==
    IF s = <<>> THEN 0
    ELSE 10 * ToInt(SubSeq(s, 1, Len(s) - 1)) + DigitVal(s[Len(s)])

\* _parse_deaths_from_text: None when nothing is found or int() raises
parse_deaths_from_text(text) ==
    LET m1 == Pat1Search(text)
        m  == IF m1 # <<>> THEN m1 ELSE LineFallback(SplitLines(text))
        num_str == StripNonDigits(m)
    IN  IF m = <<>> THEN None
        ELSE IF num_str = <<>> THEN None      \* int("") raises ValueError
        ELSE ToInt(num_str)

----------------------------------------------------------------------------
(* find_latest_pdf_url *)

Dates == 1..MaxDate

NoUrl == [kind |-> "none", pattern |-> 0, date |-> 0]

\* cand: the three file names guessed from the latest date, in the order tried
Cand(latest) ==
    <<[kind |-> "guess", pattern |-> 1, date |-> latest],
      [kind |-> "guess", pattern |-> 2, date |-> latest],
      [kind |-> "guess", pattern |-> 3, date |-> latest]>>

\* data["data"][0]["fields"]["attachments"][0]["url"] of the API answer
ApiUrl(d) == [kind |-> "api", pattern |-> 0, date |-> d]

\* find_latest_pdf_url changed to ask the API when the listing has no match
find_latest_pdf_url_api_on_empty(s) ==
    LET hits == IF s.listing = {} THEN {} ELSE {k \in 1..3 : k \in s.probes}
    IN  IF hits # {}
        THEN [raised |-> FALSE, url |-> Cand(SetMax(s.listing))[SetMin(hits)],
              date |-> SetMax(s.listing), api |-> FALSE]
        ELSE IF s.api # 0
        THEN [raised |-> FALSE, url |-> ApiUrl(s.api), date |-> s.api, api |-> TRUE]
        ELSE [raised |-> TRUE, url |-> NoUrl, date |-> Unset, api |-> TRUE]

\* find_latest_pdf_url changed to take min(snapshots)
find_latest_pdf_url_min(s) ==
    IF s.listing = {}
    THEN [raised |-> TRUE, url |-> NoUrl, date |-> Unset, api |-> FALSE]
    ELSE LET latest == SetMin(s.listing)
             hits == {k \in 1..3 : k \in s.probes}
         IN  IF hits # {}
             THEN [raised |-> FALSE, url |-> Cand(latest)[SetMin(hits)],
                   date |-> latest, api |-> FALSE]
             ELSE IF s.api # 0
             THEN [raised |-> FALSE, url |-> ApiUrl(s.api),
                   date |-> s.api, api |-> TRUE]
             ELSE [raised |-> TRUE, url |-> NoUrl, date |-> Unset, api |-> TRUE]

\* s.listing: the dates parsed from the anchors whose title matches;
\* s.probes: the patterns whose HEAD request answers ok;
\* s.api: the date of the first API result, 0 when the answer has none.
\* raised: RuntimeError; api: the API was queried.
find_latest_pdf_url(s) ==
    IF s.listing = {}
    THEN [raised |-> TRUE, url |-> NoUrl, date |-> Unset, api |-> FALSE]
    ELSE LET latest == SetMax(s.listing)
             hits == {k \in 1..3 : k \in s.probes}
         IN  IF hits # {}
             THEN [raised |-> FALSE, url |-> Cand(latest)[SetMin(hits)],
                   date |-> latest, api |-> FALSE]
             ELSE IF s.api # 0
             THEN [raised |-> FALSE, url |-> ApiUrl(s.api),
                   date |-> s.api, api |-> TRUE]
             ELSE [raised |-> TRUE, url |-> NoUrl, date |-> Unset, api |-> TRUE]

----------------------------------------------------------------------------
(* extract_deaths *)

\* not text.strip()
IsBlank(text) == \A i \in 1..Len(text) : IsSpace(text[i])

\* "if num:" on an int or None
Truthy(num) == num # None /\ num # 0

\* extract_deaths changed to run the OCR branch without testing OCR_AVAILABLE
extract_deaths_ocr_untested(text, ocr_text, ocr) ==
    LET num == IF IsBlank(text) THEN None ELSE parse_deaths_from_text(text)
    IN  IF Truthy(num)
        THEN [raised |-> FALSE, num |-> num, ocr_run |-> FALSE]
        ELSE LET num2 == parse_deaths_from_text(ocr_text)
             IN  IF Truthy(num2)
                 THEN [raised |-> FALSE, num |-> num2, ocr_run |-> TRUE]
                 ELSE [raised |-> TRUE, num |-> Unset, ocr_run |-> TRUE]

\* extract_deaths changed to test "num is not None" instead of "num"
extract_deaths_none_test(text, ocr_text, ocr) ==
    LET num == IF IsBlank(text) THEN None ELSE parse_deaths_from_text(text)
    IN  IF num # None
        THEN [raised |-> FALSE, num |-> num, ocr_run |-> FALSE]
        ELSE IF ocr
        THEN LET num2 == parse_deaths_from_text(ocr_text)
             IN  IF num2 # None
                 THEN [raised |-> FALSE, num |-> num2, ocr_run |-> TRUE]
                 ELSE [raised |-> TRUE, num |-> Unset, ocr_run |-> TRUE]
        ELSE [raised |-> TRUE, num |-> Unset, ocr_run |-> FALSE]

\* text: the joined text layer; ocr_text: what pytesseract reads from the
\* pages; ocr: OCR_AVAILABLE.  raised: RuntimeError; ocr_run: OCR was invoked.
extract_deaths(text, ocr_text, ocr) ==
    LET num == IF IsBlank(text) THEN None ELSE parse_deaths_from_text(text)
    IN  IF Truthy(num)
        THEN [raised |-> FALSE, num |-> num, ocr_run |-> FALSE]
        ELSE IF ocr
        THEN LET num2 == parse_deaths_from_text(ocr_text)
             IN  IF Truthy(num2)
                 THEN [raised |-> FALSE, num |-> num2, ocr_run |-> TRUE]
                 ELSE [raised |-> TRUE, num |-> Unset, ocr_run |-> TRUE]
        ELSE [raised |-> TRUE, num |-> Unset, ocr_run |-> FALSE]

----------------------------------------------------------------------------
(* The ledger *)

NoFile == [exists |-> FALSE, header |-> FALSE, rows |-> <<>>]

\* the date test changed to never find the date
DateExists_never(rows, d) == FALSE

\* (df["date"] == snap_date).any()
DateExists(rows, d) == \E i \in 1..Len(rows) : rows[i].date = d

RECURSIVE InsertByDate(_, _)
InsertByDate(sorted, row) ==
    IF sorted = <<>> THEN <<row>>
    ELSE IF row.date < Head(sorted).date THEN <<row>> \o sorted
         ELSE <<Head(sorted)>> \o InsertByDate(Tail(sorted), row)

\* the sort left out
SortByDate_unsorted(rows) == rows

\* df.sort_values("date").reset_index(drop=True)
RECURSIVE SortByDate(_)
SortByDate(rows) ==
    IF rows = <<>> THEN <<>>
    ELSE InsertByDate(SortByDate(SubSeq(rows, 1, Len(rows) - 1)), rows[Len(rows)])

----------------------------------------------------------------------------
(* What the network serves *)

Str_empty == <<>>

Str_blank == <<" ", "\n", NBSP>>

\* "Palestinians: 52,653 fatalities"
Str_text == Palestinians \o <<":", " ", "5", "2", ",", "6", "5", "3", " ">> \o FATALITIES

\* "Palestinians:00000fatalities"
Str_zero == Palestinians \o <<":", "0", "0", "0", "0", "0">> \o FATALITIES

\* "Palestinians:,,,,,fatalities"
Str_commas == Palestinians \o <<":", ",", ",", ",", ",", ",">> \o FATALITIES

\* "Palestinians\n52,700\nfatalities"
Str_ocr == Palestinians \o <<"\n", "5", "2", ",", "7", "0", "0", "\n">> \o FATALITIES

\* "no data"
Str_junk == <<"n", "o", " ", "d", "a", "t", "a">>

\* the documents served: <<text layer, OCR reading>>
Docs ==
    {<<Str_empty, Str_junk>>, <<Str_blank, Str_ocr>>, <<Str_text, Str_junk>>,
     <<Str_zero, Str_ocr>>, <<Str_commas, Str_junk>>}

\* the probe and API answers of the runs: <<probes, api>>; a probe succeeds
\* (the API is not asked then), or none does and the API has nothing or has a
\* report dated 1.  SpecLocate below covers every answer.
Answers == {<<{2, 3}, 0>>, <<{}, 0>>, <<{}, 1>>}

NoSource == [listing |-> {}, probes |-> {}, api |-> 0,
             text |-> Str_empty, ocr |-> Str_junk]

Sources ==
    {[listing |-> l, probes |-> a[1], api |-> a[2], text |-> d[1], ocr |-> d[2]] :
        l \in SUBSET Dates, a \in Answers, d \in Docs}

LocateSources ==
    [listing : SUBSET Dates, probes : SUBSET (1..3), api : 0..MaxDate,
     text : {Str_empty}, ocr : {Str_junk}]

----------------------------------------------------------------------------
(* One run of main() under the __main__ guard *)

RunEnded == pc \in {"done", "failed"}

Init ==
    /\ csv = NoFile
    /\ OCR_AVAILABLE \in BOOLEAN
    /\ pc = "idle"
    /\ src = NoSource
    /\ pdf_url = NoUrl
    /\ snap_date = Unset
    /\ deaths = Unset
    /\ df = <<>>
    /\ api_queried = FALSE
    /\ ocr_invoked = FALSE
    /\ exit_code = 0
    /\ fail_stage = "none"
    /\ ledger_at_start = NoFile
    /\ same_source = FALSE
    /\ prev_exit = -1
    /\ text_in = Unset
    /\ parsed = Unset

\* the process starts: nothing of an earlier run survives but the csv file
StartRun ==
    /\ pc = "idle" \/ RunEnded
    /\ \E s \in Sources :
          /\ src' = s
          /\ same_source' = (RunEnded /\ s = src)
          /\ prev_exit' = IF RunEnded /\ s = src THEN exit_code ELSE -1
    /\ ledger_at_start' = csv
    /\ pc' = "start"
    /\ pdf_url' = NoUrl
    /\ snap_date' = Unset
    /\ deaths' = Unset
    /\ df' = <<>>
    /\ api_queried' = FALSE
    /\ ocr_invoked' = FALSE
    /\ exit_code' = 0
    /\ fail_stage' = "none"
    /\ UNCHANGED <<csv, OCR_AVAILABLE, text_in, parsed>>

\* an exception leaves main(): logging.error, sys.exit(1)
Fail(stage) ==
    /\ pc' = "failed"
    /\ exit_code' = 1
    /\ fail_stage' = stage

\* pdf_url, snap_date = find_latest_pdf_url()
Locate ==
    /\ pc = "start"
    /\ LET r == find_latest_pdf_url(src)
       IN  /\ api_queried' = r.api
           /\ IF r.raised
              THEN Fail("locate") /\ UNCHANGED <<pdf_url, snap_date>>
              ELSE /\ pc' = "located"
                   /\ pdf_url' = r.url
                   /\ snap_date' = r.date
                   /\ UNCHANGED <<exit_code, fail_stage>>
    /\ UNCHANGED <<csv, OCR_AVAILABLE, src, deaths, df, ocr_invoked,
                   ledger_at_start, same_source, prev_exit, text_in, parsed>>

\* deaths = extract_deaths(pdf_url)
Extract ==
    /\ pc = "located"
    /\ LET r == extract_deaths(src.text, src.ocr, OCR_AVAILABLE)
       IN  /\ ocr_invoked' = r.ocr_run
           /\ IF r.raised
              THEN Fail("extract") /\ UNCHANGED deaths
              ELSE /\ pc' = "extracted"
                   /\ deaths' = r.num
                   /\ UNCHANGED <<exit_code, fail_stage>>
    /\ UNCHANGED <<csv, OCR_AVAILABLE, src, pdf_url, snap_date, df, api_queried,
                   ledger_at_start, same_source, prev_exit, text_in, parsed>>

\* the CSV update up to the call of to_csv: read the file or start an empty
\* frame, test the date, concat and sort.  pd.read_csv raises EmptyDataError
\* on a file without a header line.
Upsert ==
    /\ pc = "extracted"
    /\ IF csv.exists /\ ~csv.header
       THEN Fail("load") /\ UNCHANGED df
       ELSE LET loaded == IF csv.exists THEN csv.rows ELSE <<>>
            IN  IF DateExists(loaded, snap_date)
                THEN /\ df' = loaded
                     /\ pc' = "plot"
                     /\ UNCHANGED <<exit_code, fail_stage>>
                ELSE /\ df' = SortByDate(Append(loaded,
                                [date |-> snap_date, fatalities |-> deaths]))
                     /\ pc' = "to_csv"
                     /\ UNCHANGED <<exit_code, fail_stage>>
    /\ UNCHANGED <<csv, OCR_AVAILABLE, src, pdf_url, snap_date, deaths,
                   api_queried, ocr_invoked, ledger_at_start, same_source,
                   prev_exit, text_in, parsed>>

writeFrame == <<OCR_AVAILABLE, src, pdf_url, snap_date, deaths, df, api_queried,
                ocr_invoked, ledger_at_start, same_source, prev_exit, text_in,
                parsed>>

\* df.to_csv(DATA_CSV, index=False): open(path, "w") creates or truncates
WriteOpen ==
    /\ pc = "to_csv"
    /\ csv' = [exists |-> TRUE, header |-> FALSE, rows |-> <<>>]
    /\ pc' = "to_csv_header"
    /\ UNCHANGED <<exit_code, fail_stage>>
    /\ UNCHANGED writeFrame

\* ... the header line reaches the file
WriteHeader ==
    /\ pc = "to_csv_header"
    /\ csv' = [csv EXCEPT !.header = TRUE]
    /\ pc' = "to_csv_rows"
    /\ UNCHANGED <<exit_code, fail_stage>>
    /\ UNCHANGED writeFrame

\* ... the next row reaches the file
WriteRow ==
    /\ pc = "to_csv_rows"
    /\ Len(csv.rows) < Len(df)
    /\ csv' = [csv EXCEPT !.rows = Append(csv.rows, df[Len(csv.rows) + 1])]
    /\ UNCHANGED <<pc, exit_code, fail_stage>>
    /\ UNCHANGED writeFrame

\* ... the file is complete and closed
WriteClose ==
    /\ pc = "to_csv_rows"
    /\ csv.rows = df
    /\ pc' = "plot"
    /\ UNCHANGED <<csv, exit_code, fail_stage>>
    /\ UNCHANGED writeFrame

\* to_csv raises (OSError: disk full, permission, ...) where it stands; the
\* file keeps what reached it
WriteFail ==
    /\ pc \in {"to_csv", "to_csv_header", "to_csv_rows"}
    /\ Fail("write")
    /\ UNCHANGED csv
    /\ UNCHANGED writeFrame

\* the plot update: plt.savefig succeeds and main() returns, or it raises
Plot ==
    /\ pc = "plot"
    /\ \/ pc' = "done" /\ UNCHANGED <<exit_code, fail_stage>>
       \/ Fail("plot")
    /\ UNCHANGED csv
    /\ UNCHANGED writeFrame

Next ==
    \/ StartRun
    \/ Locate
    \/ Extract
    \/ Upsert
    \/ WriteOpen
    \/ WriteHeader
    \/ WriteRow
    \/ WriteClose
    \/ WriteFail
    \/ Plot

Spec == Init /\ [][Next]_vars

----------------------------------------------------------------------------
(* find_latest_pdf_url on every listing, probe and API answer *)

InitLocate ==
    /\ src \in LocateSources
    /\ pc = "start"
    /\ csv = NoFile
    /\ OCR_AVAILABLE = FALSE
    /\ pdf_url = NoUrl
    /\ snap_date = Unset
    /\ deaths = Unset
    /\ df = <<>>
    /\ api_queried = FALSE
    /\ ocr_invoked = FALSE
    /\ exit_code = 0
    /\ fail_stage = "none"
    /\ ledger_at_start = NoFile
    /\ same_source = FALSE
    /\ prev_exit = -1
    /\ text_in = Unset
    /\ parsed = Unset

NextLocate == Locate

SpecLocate == InitLocate /\ [][NextLocate]_vars

----------------------------------------------------------------------------
(* Direct calls of _parse_deaths_from_text on generated texts *)

FillChars == {":", "a", " ", "\n"}
Spaces == {" ", NBSP, NNBSP}
RunChars(ws) == {"7", ",", ws}

SeqsUpTo(S, n) == UNION {[1..k -> S] : k \in 0..n}

Fillers == SeqsUpTo(FillChars, MaxFill)
Runs == UNION {[1..RunLen -> RunChars(ws)] : ws \in Spaces}

Template(f1, run, f2) == Palestinians \o f1 \o run \o f2 \o FATALITIES

InitParse ==
    /\ \E f1 \in Fillers, run \in Runs, f2 \in Fillers :
          text_in = [f1 |-> f1, run |-> run, f2 |-> f2]
    /\ parsed = Unset
    /\ csv = NoFile
    /\ OCR_AVAILABLE = FALSE
    /\ pc = "idle"
    /\ src = NoSource
    /\ pdf_url = NoUrl
    /\ snap_date = Unset
    /\ deaths = Unset
    /\ df = <<>>
    /\ api_queried = FALSE
    /\ ocr_invoked = FALSE
    /\ exit_code = 0
    /\ fail_stage = "none"
    /\ ledger_at_start = NoFile
    /\ same_source = FALSE
    /\ prev_exit = -1

Parse ==
    /\ parsed = Unset
    /\ parsed' = parse_deaths_from_text(Template(text_in.f1, text_in.run, text_in.f2))
    /\ UNCHANGED <<text_in, pipeVars>>

NextParse == Parse

SpecParse == InitParse /\ [][NextParse]_vars

----------------------------------------------------------------------------
(* Properties *)

\* find_latest_pdf_url has returned or raised in the current run
LocateRan == pc \notin {"idle", "start"}

Located == LocateRan /\ fail_stage # "locate"

\* extract_deaths has returned or raised in the current run
ExtractRan == deaths # Unset \/ fail_stage = "extract"

HasDigit(s) == \E i \in 1..Len(s) : s[i] \in Digits

\* a number as the reports print it: digits, each group separator between two
\* digits, spaces anywhere
WellFormedRun(s) ==
    /\ HasDigit(s)
    /\ \A i \in 1..Len(s) :
          s[i] = "," => (i > 1 /\ i < Len(s) /\ s[i - 1] \in Digits /\ s[i + 1] \in Digits)

\* C1: starting from an absent ledger file, after any sequence of runs the
\* persisted ledger has pairwise distinct dates and its rows are sorted by
\* date ascending.
C1_LedgerDistinctSorted ==
    (pc = "idle" \/ RunEnded) =>
        /\ \A i, j \in 1..Len(csv.rows) : i # j => csv.rows[i].date # csv.rows[j].date
        /\ \A i, j \in 1..Len(csv.rows) : i < j => csv.rows[i].date <= csv.rows[j].date

\* a run has committed a date earlier than one already in the ledger
C1_Witness ==
    /\ pc = "done"
    /\ csv # ledger_at_start
    /\ Len(csv.rows) >= 2
    /\ csv.rows[1].date = snap_date

\* C2 as stated: a second run against an unchanged source leaves the ledger
\* as the first run left it and ends without error.
C2_RerunUnchangedNoError ==
    (RunEnded /\ same_source) => (csv = ledger_at_start /\ exit_code = 0)

\* C2 amended: if the first run ended without error, a second run against the
\* unchanged source leaves the ledger as the first run left it, and no stage
\* before the plot fails in it.
C2_RerunAfterSuccess ==
    (RunEnded /\ same_source /\ prev_exit = 0) =>
        (csv = ledger_at_start /\ fail_stage \in {"none", "plot"})

C2_Witness ==
    /\ pc = "done"
    /\ same_source
    /\ prev_exit = 0
    /\ DateExists(csv.rows, snap_date)
    /\ csv = ledger_at_start

\* C3: the ledger is append-only: every entry present when a run starts is
\* present, with the same count, when the run ends; a run that finds its date
\* already present leaves the file as it was.
C3_AppendOnly ==
    RunEnded =>
        /\ \A i \in 1..Len(ledger_at_start.rows) :
              \E j \in 1..Len(csv.rows) : csv.rows[j] = ledger_at_start.rows[i]
        /\ (Located /\ DateExists(ledger_at_start.rows, snap_date)) =>
              csv = ledger_at_start

\* C4: a run that ends in failure leaves the persisted ledger as it was
\* before the run; the ledger changes only in a run in which locating and
\* extracting both succeeded.
C4_FailureLeavesLedger ==
    /\ (RunEnded /\ exit_code # 0) => csv = ledger_at_start
    /\ (pc # "idle" /\ csv # ledger_at_start) => (Located /\ deaths # Unset)

\* C5 as stated: with no matching anchor on the listing page the locator
\* queries the index API, returns its url and date if it has them, and fails
\* (error reported, exit 1) only if the API has nothing either.
C5_EmptyListingFallsBackToApi ==
    (LocateRan /\ src.listing = {}) =>
        /\ api_queried
        /\ src.api # 0 =>
              (fail_stage = "none" /\ pdf_url = ApiUrl(src.api) /\ snap_date = src.api)
        /\ fail_stage = "locate" => (src.api = 0 /\ exit_code = 1)

\* C5 amended: with no matching anchor the locator fails at once, without
\* querying the index API, and the run ends with exit 1; the API is queried
\* exactly when anchors matched and every file-name probe failed, its url and
\* date are returned if it has them, and the locator fails then only if the
\* API has nothing.
C5_EmptyListingFails ==
    LocateRan =>
        /\ src.listing = {} =>
              (~api_queried /\ pc = "failed" /\ fail_stage = "locate" /\ exit_code = 1)
        /\ api_queried <=> (src.listing # {} /\ src.probes = {})
        /\ (api_queried /\ src.api # 0) =>
              (fail_stage # "locate" /\ pdf_url = ApiUrl(src.api) /\ snap_date = src.api)
        /\ fail_stage = "locate" =>
              /\ pc = "failed"
              /\ exit_code = 1
              /\ src.listing = {} \/ (src.probes = {} /\ src.api = 0)

\* the listing has no match although the API has a report
C5_Witness ==
    /\ pc = "failed"
    /\ fail_stage = "locate"
    /\ src.listing = {}
    /\ src.api # 0

\* C6: for a text "Palestinians" + filler + number run + filler +
\* "fatalities", the run a number with group separators and spaces at least
\* 5 characters long, _parse_deaths_from_text returns the integer formed by
\* the digits of the run.
C6_RoundTrip ==
    (parsed # Unset /\ WellFormedRun(text_in.run)) =>
        parsed = ToInt(StripNonDigits(text_in.run))

\* C7: with an empty or whitespace-only text layer, if OCR is available it is
\* invoked and the extracted count is the one parsed from the OCR text; if
\* OCR is unavailable it is not invoked and the run fails in extraction with
\* the ledger untouched.
C7_OcrFallback ==
    (ExtractRan /\ IsBlank(src.text)) =>
        IF OCR_AVAILABLE
        THEN /\ ocr_invoked
             /\ deaths # Unset => deaths = parse_deaths_from_text(src.ocr)
        ELSE /\ ~ocr_invoked
             /\ pc = "failed"
             /\ fail_stage = "extract"
             /\ exit_code = 1
             /\ csv = ledger_at_start

\* a blank text layer, and the count read by OCR is in the ledger
C7_Witness ==
    /\ pc = "done"
    /\ src.text = Str_blank
    /\ ocr_invoked
    /\ \E i \in 1..Len(csv.rows) :
          csv.rows[i] = [date |-> snap_date, fatalities |-> 52700]

\* C8: if the write of the ledger file fails at any point, the file still
\* holds the previously persisted ledger in full.
C8_WriteAllOrNothing ==
    (pc = "failed" /\ fail_stage = "write") => csv = ledger_at_start

\* C9 as stated: the date returned by the locator is the maximum of the dates
\* of the matching anchors, however the probes and the API answer.
C9_DateIsListingMax ==
    Located => snap_date = SetMax(src.listing)

\* C9 amended: if a file-name probe succeeds the returned date is the maximum
\* of the anchor dates and the url is the first candidate whose probe
\* succeeds; if every probe fails the url and date are those of the API.
C9_ResultBySource ==
    Located =>
        IF src.probes # {}
        THEN /\ snap_date = SetMax(src.listing)
             /\ pdf_url = Cand(SetMax(src.listing))[SetMin(src.probes)]
        ELSE /\ snap_date = src.api
             /\ pdf_url = ApiUrl(src.api)

\* several anchors, the first file name missing, the second one found
C9_Witness ==
    /\ pc = "located"
    /\ Cardinality(src.listing) >= 2
    /\ src.probes = {2, 3}
    /\ pdf_url.pattern = 2

\* C10: extract_deaths returns a strictly positive integer or raises: a text
\* layer whose run yields 0 or no digits sends the run to the OCR attempt and
\* then to the error, and no ledger row has a count below 1.
C10_PositiveCount ==
    /\ deaths # Unset => deaths >= 1
    /\ \A i \in 1..Len(csv.rows) : csv.rows[i].fatalities >= 1
    /\ (ExtractRan /\ ~Truthy(parse_deaths_from_text(src.text))) =>
          /\ ocr_invoked <=> OCR_AVAILABLE
          /\ deaths # Unset => deaths = parse_deaths_from_text(src.ocr)
          /\ ~OCR_AVAILABLE => fail_stage = "extract"

\* the text layer reads 00000 and the run went on to OCR
C10_Witness ==
    /\ src.text = Str_zero
    /\ parse_deaths_from_text(src.text) = 0
    /\ ocr_invoked
    /\ deaths = 52700
    /\ pc = "done"

====
